---- MODULE Spec2Model ----
(***************************************************************************)
(* State-machine model of the KStream stream cipher (src/KStream.c) and    *)
(* of its command-line driver mcrypt (src/mcrypt.c).                       *)
(***************************************************************************)
EXTENDS Integers, Sequences, FiniteSets, TLC

\* ------------------------------------------------------------------------
\* Program constants
\* ------------------------------------------------------------------------
KeyLen == 8
TableSize == 256
\* faulty variant: one priming step short
PrimeCountShort == 1024 - 1

PrimeCount == 1024

\* ------------------------------------------------------------------------
\* Bounds of the exploration
\* ------------------------------------------------------------------------
\* most bytes one generator translates over its lifetime
MaxBytes == 2
\* a caller creates a generator only while every other live generator has
\* translated at most this many bytes
MaxBytesBeforeCreate == 0

GenIds == {1, 2}
Keys == { <<0, 1, 2, 3, 4, 5, 6, 7>>, <<1, 1, 2, 3, 4, 5, 6, 7>> }
InBytes == {65, 255}

\* the plain texts callers hold (one, shared by all generators), and the
\* byte of text t at offset p (from 0)
Texts == {1}
PlainByte(t, p) == (65 + 95 * p + 10 * (t - 1)) % 256

Byte == 0 .. 255

\* ------------------------------------------------------------------------
\* Pure helpers
\* ------------------------------------------------------------------------
RECURSIVE XorBits(_, _, _)
XorBits(a, b, w) ==
    IF w = 0 THEN 0
    ELSE (((a % 2) + (b % 2)) % 2) + 2 * XorBits(a \div 2, b \div 2, w - 1)

\* faulty variant: addition in place of exclusive-or
XorAsAdd(a, b) == (a + b) % 256

\* the C expression a ^ b on two uint8_t operands
Xor(a, b) == XorBits(a, b, 8)

\* faulty variant: reduction modulo 255
ModBy255(x) == x % 255

\* the C expression x & 0xFF on a non-negative int
And0xFF(x) == x % 256

\* C array keybytes[0..7] from a TLA+ sequence
KeyAt(keyseq, idx) == keyseq[idx + 1]

\* faulty variant: the temporary is lost, *b keeps its old value
swap_bytes_no_tmp(S, a, b) == [S EXCEPT ![a] = S[b]]

swap_bytes(S, a, b) == [S EXCEPT ![a] = S[b], ![b] = S[a]]

\* faulty variant: j is stored unmasked and masked only where it indexes
ks_next_byte_unmasked_j(ks) ==
    LET i1  == And0xFF(ks.i + 1)
        j1  == And0xFF(ks.j + ks.S[i1])
        S1  == swap_bytes(ks.S, i1, j1)
        idx == And0xFF(S1[i1] + S1[j1])
    IN  [ks |-> [ks EXCEPT !.i = i1, !.j = ks.j + ks.S[i1], !.S = S1],
         B |-> S1[idx]]

\* faulty variant: the exchange uses i from before its increment
ks_next_byte_swap_old_i(ks) ==
    LET i1  == And0xFF(ks.i + 1)
        j1  == And0xFF(ks.j + ks.S[i1])
        S1  == swap_bytes(ks.S, ks.i, j1)
        idx == And0xFF(S1[i1] + S1[j1])
    IN  [ks |-> [ks EXCEPT !.i = i1, !.j = j1, !.S = S1], B |-> S1[idx]]

\* faulty variant: the returned byte is read from the table before the swap
ks_next_byte_read_before_swap(ks) ==
    LET i1  == And0xFF(ks.i + 1)
        j1  == And0xFF(ks.j + ks.S[i1])
        S1  == swap_bytes(ks.S, i1, j1)
        idx == And0xFF(ks.S[i1] + ks.S[j1])
    IN  [ks |-> [ks EXCEPT !.i = i1, !.j = j1, !.S = S1], B |-> ks.S[idx]]

\* one call of ks_next_byte: the new generator and the returned byte
ks_next_byte(ks) ==
    LET i1  == And0xFF(ks.i + 1)
        j1  == And0xFF(ks.j + ks.S[i1])
        S1  == swap_bytes(ks.S, i1, j1)
        idx == And0xFF(S1[i1] + S1[j1])
    IN  [ks |-> [ks EXCEPT !.i = i1, !.j = j1, !.S = S1], B |-> S1[idx]]

BufsOf(bytes, maxlen) ==
    UNION { [1 .. l -> bytes] : l \in 0 .. maxlen }

\* ------------------------------------------------------------------------
\* State
\* ------------------------------------------------------------------------
VARIABLES
    heap,      \* the allocated KStream structs, by generator id
    pc,        \* position of the single thread inside the KStream module
    self,      \* generator the running call works on
    n,         \* loop counter of the running call
    jloc,      \* local j of the key schedule in ks_create
    inb,       \* ks_translate: in
    outb,      \* ks_translate: out, the bytes written so far
    num,       \* ks_translate: num
    nbCalls,   \* per generator: ks_next_byte calls since its creation
    inLog,     \* per generator: input bytes translated since its creation
    outLog,    \* per generator: output bytes written since its creation
    kLog,      \* per generator: keystream bytes handed to ks_translate
    cuts,      \* per generator: stream offsets at which a ks_translate
               \* call returned
    entryCalls,\* nbCalls of the generator when the running ks_translate began
    lastB,     \* byte the last ks_next_byte of the running call returned
    dpc,       \* mcrypt: position of main
    argc,      \* mcrypt: argument count
    keyfile,   \* mcrypt: the file named by argv[1]
    infile,    \* mcrypt: the file named by argv[2]
    outarg,    \* mcrypt: argv[3]
    key64,     \* mcrypt: object representation of the uint64_t key
    inbuf,     \* mcrypt: the input buffer
    wi,        \* mcrypt: loop counter of write_stdout
    stdout,    \* mcrypt: character codes written to stdout
    outfile,   \* mcrypt: bytes written to the output file
    stderr,    \* mcrypt: messages written to stderr
    status     \* mcrypt: how the process ended

cvars == <<heap, pc, self, n, jloc, inb, outb, num,
           nbCalls, inLog, outLog, kLog, cuts, entryCalls, lastB>>
dvars == <<dpc, argc, keyfile, infile, outarg, key64, inbuf, wi,
           stdout, outfile, stderr, status>>
vars == <<cvars, dvars>>

ghost == <<nbCalls, inLog, outLog, kLog, cuts, entryCalls, lastB>>

NoFile == [exists |-> FALSE, data |-> <<>>]
File(bytes) == [exists |-> TRUE, data |-> bytes]

CoreInit ==
    /\ heap = <<>>
    /\ pc = "idle"
    /\ self = 1
    /\ n = 0
    /\ jloc = 0
    /\ inb = <<>>
    /\ outb = <<>>
    /\ num = 0
    /\ nbCalls = [g \in GenIds |-> 0]
    /\ inLog = [g \in GenIds |-> <<>>]
    /\ outLog = [g \in GenIds |-> <<>>]
    /\ kLog = [g \in GenIds |-> <<>>]
    /\ cuts = [g \in GenIds |-> {}]
    /\ entryCalls = 0
    /\ lastB = 0

\* the driver is not running
DriverOff ==
    /\ dpc = "off"
    /\ argc = 0
    /\ keyfile = NoFile
    /\ infile = NoFile
    /\ outarg = "-"
    /\ key64 = <<>>
    /\ inbuf = <<>>
    /\ wi = 0
    /\ stdout = <<>>
    /\ outfile = <<>>
    /\ stderr = <<>>
    /\ status = "running"

Init == CoreInit /\ DriverOff

\* ------------------------------------------------------------------------
\* ks_create
\* ------------------------------------------------------------------------
\* faulty variant: the table is left as malloc returned it, which differs from one
\* allocation to the next
CreateEnterNoTableInit(g, keybytes) ==
    /\ pc = "idle"
    /\ g \notin DOMAIN heap
    /\ heap' = [x \in DOMAIN heap \cup {g} |->
                  IF x = g
                  THEN [key    |-> [y \in 0 .. 7 |-> KeyAt(keybytes, y)],
                        keylen |-> KeyLen,
                        S      |-> [y \in 0 .. TableSize - 1 |->
                                     (y + g) % TableSize],
                        i      |-> 0,
                        j      |-> 0]
                  ELSE heap[x]]
    /\ pc' = "ksa"
    /\ self' = g
    /\ n' = 0
    /\ jloc' = 0
    /\ nbCalls' = [nbCalls EXCEPT ![g] = 0]
    /\ inLog' = [inLog EXCEPT ![g] = <<>>]
    /\ outLog' = [outLog EXCEPT ![g] = <<>>]
    /\ kLog' = [kLog EXCEPT ![g] = <<>>]
    /\ cuts' = [cuts EXCEPT ![g] = {}]
    /\ UNCHANGED <<inb, outb, num, entryCalls, lastB>>

\* entry: malloc, key copy, keylen, table initialisation, i = j = 0, int j = 0
CreateEnter(g, keybytes) ==
    /\ pc = "idle"
    /\ g \notin DOMAIN heap
    /\ heap' = [x \in DOMAIN heap \cup {g} |->
                  IF x = g
                  THEN [key    |-> [y \in 0 .. 7 |-> KeyAt(keybytes, y)],
                        keylen |-> KeyLen,
                        S      |-> [y \in 0 .. TableSize - 1 |-> y],
                        i      |-> 0,
                        j      |-> 0]
                  ELSE heap[x]]
    /\ pc' = "ksa"
    /\ self' = g
    /\ n' = 0
    /\ jloc' = 0
    /\ nbCalls' = [nbCalls EXCEPT ![g] = 0]
    /\ inLog' = [inLog EXCEPT ![g] = <<>>]
    /\ outLog' = [outLog EXCEPT ![g] = <<>>]
    /\ kLog' = [kLog EXCEPT ![g] = <<>>]
    /\ cuts' = [cuts EXCEPT ![g] = {}]
    /\ UNCHANGED <<inb, outb, num, entryCalls, lastB>>

\* faulty variant: j is a fresh local of every iteration
KsaStepFreshJ ==
    /\ pc = "ksa"
    /\ n < TableSize
    /\ LET ks == heap[self]
           j1 == And0xFF(ks.S[n] + ks.key[n % ks.keylen])
       IN  /\ jloc' = j1
           /\ heap' = [heap EXCEPT ![self].S = swap_bytes(ks.S, n, j1)]
    /\ n' = n + 1
    /\ UNCHANGED <<pc, self, inb, outb, num, ghost>>
    /\ UNCHANGED dvars

\* one iteration of the key-scheduling loop
KsaStep ==
    /\ pc = "ksa"
    /\ n < TableSize
    /\ LET ks == heap[self]
           j1 == And0xFF(jloc + ks.S[n] + ks.key[n % ks.keylen])
       IN  /\ jloc' = j1
           /\ heap' = [heap EXCEPT ![self].S = swap_bytes(ks.S, n, j1)]
    /\ n' = n + 1
    /\ UNCHANGED <<pc, self, inb, outb, num, ghost>>
    /\ UNCHANGED dvars

\* faulty variant: only i is reset, j carries the key schedule's last value
ResetOnlyI ==
    /\ pc = "ksa"
    /\ n = TableSize
    /\ heap' = [heap EXCEPT ![self].i = 0, ![self].j = jloc]
    /\ pc' = "prime"
    /\ n' = 0
    /\ UNCHANGED <<self, jloc, inb, outb, num, ghost>>
    /\ UNCHANGED dvars

\* loop exit, then the index reset before the keystream generation
ResetIndices ==
    /\ pc = "ksa"
    /\ n = TableSize
    /\ heap' = [heap EXCEPT ![self].i = 0, ![self].j = 0]
    /\ pc' = "prime"
    /\ n' = 0
    /\ UNCHANGED <<self, jloc, inb, outb, num, ghost>>
    /\ UNCHANGED dvars

\* one iteration of the priming loop: the byte is discarded
PrimeStep ==
    /\ pc = "prime"
    /\ n < PrimeCount
    /\ heap' = [heap EXCEPT ![self] = ks_next_byte(heap[self]).ks]
    /\ nbCalls' = [nbCalls EXCEPT ![self] = @ + 1]
    /\ n' = n + 1
    /\ UNCHANGED <<pc, self, jloc, inb, outb, num,
                   inLog, outLog, kLog, cuts, entryCalls>>
    /\ lastB' = ks_next_byte(heap[self]).B
    /\ UNCHANGED dvars

CreateReturn ==
    /\ pc = "prime"
    /\ n = PrimeCount
    /\ pc' = "idle"
    /\ n' = 0
    /\ jloc' = 0
    /\ lastB' = 0
    /\ UNCHANGED <<heap, self, inb, outb, num,
                   nbCalls, inLog, outLog, kLog, cuts, entryCalls>>
    /\ UNCHANGED dvars

\* ------------------------------------------------------------------------
\* ks_translate
\* ------------------------------------------------------------------------
Ready(g) == g \in DOMAIN heap /\ ~(pc \in {"ksa", "prime"} /\ self = g)

\* faulty variant: the loop body runs once before num is tested
TranslateEnterDoWhile(g, bufsNull, in, cnt) ==
    /\ pc = "idle"
    /\ Ready(g)
    /\ cnt > 0 => ~bufsNull
    /\ IF cnt = 0
       THEN /\ pc' = "idle"
            /\ cuts' = [cuts EXCEPT ![g] = @ \cup {Len(inLog[g])}]
            /\ heap' = [heap EXCEPT ![g] = ks_next_byte(heap[g]).ks]
            /\ nbCalls' = [nbCalls EXCEPT ![g] = @ + 1]
            /\ UNCHANGED <<self, n, inb, outb, num, entryCalls>>
       ELSE /\ pc' = "xlate"
            /\ entryCalls' = nbCalls[g]
            /\ self' = g
            /\ n' = 0
            /\ inb' = in
            /\ outb' = <<>>
            /\ num' = cnt
            /\ UNCHANGED <<heap, nbCalls, cuts>>
    /\ UNCHANGED <<jloc, inLog, outLog, kLog, lastB>>

\* faulty variant: a call with num > 0 sets i and j back to 0 before its loop
TranslateEnterResetsIndices(g, bufsNull, in, cnt) ==
    /\ pc = "idle"
    /\ Ready(g)
    /\ cnt > 0 => ~bufsNull
    /\ IF cnt = 0
       THEN /\ pc' = "idle"
            /\ cuts' = [cuts EXCEPT ![g] = @ \cup {Len(inLog[g])}]
            /\ UNCHANGED <<self, n, inb, outb, num, entryCalls>>
       ELSE /\ pc' = "xlate"
            /\ entryCalls' = nbCalls[g]
            /\ self' = g
            /\ n' = 0
            /\ inb' = in
            /\ outb' = <<>>
            /\ num' = cnt
            /\ UNCHANGED cuts
    /\ heap' = IF cnt = 0 THEN heap
               ELSE [heap EXCEPT ![g].i = 0, ![g].j = 0]
    /\ UNCHANGED <<jloc, nbCalls, inLog, outLog, kLog, lastB>>

\* entry: the num == 0 early return, else the loop starts
TranslateEnter(g, bufsNull, in, cnt) ==
    /\ pc = "idle"
    /\ Ready(g)
    /\ cnt > 0 => ~bufsNull
    /\ IF cnt = 0
       THEN /\ pc' = "idle"
            /\ cuts' = [cuts EXCEPT ![g] = @ \cup {Len(inLog[g])}]
            /\ UNCHANGED <<self, n, inb, outb, num, entryCalls>>
       ELSE /\ pc' = "xlate"
            /\ entryCalls' = nbCalls[g]
            /\ self' = g
            /\ n' = 0
            /\ inb' = in
            /\ outb' = <<>>
            /\ num' = cnt
            /\ UNCHANGED cuts
    /\ UNCHANGED <<heap, jloc, nbCalls, inLog, outLog, kLog, lastB>>

\* faulty variant: the generator is stepped twice for one input byte
TranslateStepTwice ==
    /\ pc = "xlate"
    /\ n < num
    /\ LET r == ks_next_byte(ks_next_byte(heap[self]).ks)
           k == r.B
           o == Xor(inb[n + 1], k)
       IN  /\ heap' = [heap EXCEPT ![self] = r.ks]
           /\ outb' = Append(outb, o)
           /\ kLog' = [kLog EXCEPT ![self] = Append(@, k)]
           /\ lastB' = k
           /\ inLog' = [inLog EXCEPT ![self] = Append(@, inb[n + 1])]
           /\ outLog' = [outLog EXCEPT ![self] = Append(@, o)]
    /\ nbCalls' = [nbCalls EXCEPT ![self] = @ + 2]
    /\ n' = n + 1
    /\ UNCHANGED <<pc, self, jloc, inb, num, cuts, entryCalls>>
    /\ UNCHANGED dvars

\* one iteration of the translation loop
TranslateStep ==
    /\ pc = "xlate"
    /\ n < num
    /\ LET r == ks_next_byte(heap[self])
           k == r.B
           o == Xor(inb[n + 1], k)
       IN  /\ heap' = [heap EXCEPT ![self] = r.ks]
           /\ outb' = Append(outb, o)
           /\ kLog' = [kLog EXCEPT ![self] = Append(@, k)]
           /\ lastB' = k
           /\ inLog' = [inLog EXCEPT ![self] = Append(@, inb[n + 1])]
           /\ outLog' = [outLog EXCEPT ![self] = Append(@, o)]
    /\ nbCalls' = [nbCalls EXCEPT ![self] = @ + 1]
    /\ n' = n + 1
    /\ UNCHANGED <<pc, self, jloc, inb, num, cuts, entryCalls>>
    /\ UNCHANGED dvars

TranslateReturn ==
    /\ pc = "xlate"
    /\ n = num
    /\ pc' = "idle"
    /\ n' = 0
    /\ inb' = <<>>
    /\ num' = 0
    /\ entryCalls' = 0
    /\ lastB' = 0
    /\ cuts' = [cuts EXCEPT ![self] = @ \cup {Len(inLog[self])}]
    /\ UNCHANGED <<heap, self, jloc, outb, nbCalls, inLog, outLog, kLog>>
    /\ UNCHANGED dvars

\* ------------------------------------------------------------------------
\* ks_destroy
\* ------------------------------------------------------------------------
Destroy(g) ==
    /\ pc = "idle"
    /\ g \in DOMAIN heap
    /\ heap' = [x \in DOMAIN heap \ {g} |-> heap[x]]
    /\ nbCalls' = [nbCalls EXCEPT ![g] = 0]
    /\ inLog' = [inLog EXCEPT ![g] = <<>>]
    /\ outLog' = [outLog EXCEPT ![g] = <<>>]
    /\ kLog' = [kLog EXCEPT ![g] = <<>>]
    /\ cuts' = [cuts EXCEPT ![g] = {}]
    /\ UNCHANGED <<pc, self, n, jloc, inb, num, entryCalls, lastB>>

\* ------------------------------------------------------------------------
\* The callers of the module
\* ------------------------------------------------------------------------
\* buffers a caller may hand to ks_translate on generator g: the next bytes
\* of a plain text, or the bytes another generator wrote at the same stream
\* offset
InputsFor(g, cnt) ==
    { [x \in 1 .. cnt |-> PlainByte(t, Len(inLog[g]) + x - 1)] : t \in Texts }
      \cup { SubSeq(outLog[h], Len(inLog[g]) + 1, Len(inLog[g]) + cnt) :
               h \in { x \in GenIds : Len(outLog[x]) >= Len(inLog[g]) + cnt } }

CallCreate ==
    \E g \in GenIds, k \in Keys :
      /\ \A h \in GenIds \ {g} : Len(inLog[h]) <= MaxBytesBeforeCreate
      /\ CreateEnter(g, k)
      /\ UNCHANGED dvars

CallTranslate ==
    \E g \in GenIds :
      \E cnt \in 0 .. (MaxBytes - Len(inLog[g])) :
           \E in \in InputsFor(g, cnt), bufsNull \in {cnt = 0, FALSE} :
             TranslateEnter(g, bufsNull, in, cnt) /\ UNCHANGED dvars

\* a caller releases its output buffer together with the generator
CallDestroy ==
    \E g \in GenIds : Destroy(g) /\ outb' = <<>> /\ UNCHANGED dvars

\* ------------------------------------------------------------------------
\* mcrypt: the driver program
\* ------------------------------------------------------------------------
KeyFileLen == 8

KeyFiles == { <<>>,
              <<0, 1, 2, 3, 4, 5, 6>>,
              <<0, 1, 2, 3, 4, 5, 6, 7>>,
              <<0, 1, 2, 3, 4, 5, 6, 7, 10>> }

\* what the bytes at an arbitrary address may hold
MemoryBytes == Keys

Min(a, b) == IF a < b THEN a ELSE b

\* isprint in the "C" locale, which main never changes
isprint(c) == 32 <= c /\ c <= 126

\* character code of one lowercase hexadecimal digit
HexDigit(d) == IF d < 10 THEN 48 + d ELSE 97 + (d - 10)

\* printf("%02x", b) for a uint8_t b
Printf02x(b) == <<HexDigit(b \div 16), HexDigit(b % 16)>>

\* faulty variant: the isprint test is missing
RenderByteNoIsprint(b) == IF b < 128 THEN <<b>> ELSE Printf02x(b)

\* what write_stdout emits for one byte
RenderByte(b) == IF b < 128 /\ isprint(b) THEN <<b>> ELSE Printf02x(b)

Fail(msg) ==
    /\ stderr' = Append(stderr, msg)
    /\ status' = "EXIT_FAILURE"
    /\ dpc' = "exit"

\* main: the argument count check
MainArgs ==
    /\ dpc = "start"
    /\ IF argc # 4
       THEN Fail("usage")
       ELSE dpc' = "read_key" /\ UNCHANGED <<stderr, status>>
    /\ UNCHANGED <<cvars, argc, keyfile, infile, outarg, key64, inbuf, wi,
                   stdout, outfile>>

\* read_key: fread into a zeroed uint64_t returns cnt, at most 8 bytes
ReadKey ==
    /\ dpc = "read_key"
    /\ IF ~keyfile.exists
       THEN Fail("perror key-file") /\ UNCHANGED key64
       ELSE \E cnt \in 0 .. Min(KeyFileLen, Len(keyfile.data)) :
              /\ key64' = [x \in 1 .. KeyFileLen |->
                             IF x <= cnt THEN keyfile.data[x] ELSE 0]
              /\ IF cnt # KeyFileLen
                 THEN Fail("error: key file must contain 8 bytes")
                 ELSE dpc' = "read_input" /\ UNCHANGED <<stderr, status>>
    /\ UNCHANGED <<cvars, argc, keyfile, infile, outarg, inbuf, wi,
                   stdout, outfile>>

\* read_input: size of the file, malloc(size), fread of size bytes
ReadInput ==
    /\ dpc = "read_input"
    /\ \/ /\ ~infile.exists
          /\ Fail("perror input-file")
          /\ UNCHANGED inbuf
       \/ /\ infile.exists
          /\ Fail("error: cannot read file size")
          /\ UNCHANGED inbuf
       \/ /\ infile.exists
          /\ Len(infile.data) = 0
          /\ dpc' = "exit"
          /\ status' = "SIGABRT"
          /\ stderr' = Append(stderr, "assert buf != NULL")
          /\ UNCHANGED inbuf
       \/ /\ infile.exists
          /\ \E cnt \in 0 .. Len(infile.data) :
               IF cnt # Len(infile.data)
               THEN Fail("error: could not read entire input file")
                    /\ UNCHANGED inbuf
               ELSE /\ inbuf' = infile.data
                    /\ dpc' = "alloc_out"
                    /\ UNCHANGED <<stderr, status>>
    /\ UNCHANGED <<cvars, argc, keyfile, infile, outarg, key64, wi,
                   stdout, outfile>>

\* main: malloc of the output buffer; malloc(0) may return NULL
MainAllocOut ==
    /\ dpc = "alloc_out"
    /\ \/ /\ Len(inbuf) = 0
          /\ dpc' = "exit"
          /\ status' = "SIGABRT"
          /\ stderr' = Append(stderr, "assert outbuf != NULL")
       \/ /\ dpc' = "create"
          /\ UNCHANGED <<stderr, status>>
    /\ UNCHANGED <<cvars, argc, keyfile, infile, outarg, key64, inbuf, wi,
                   stdout, outfile>>

\* main: ks_create(key64): the integer is converted to the pointer
\* keybytes, and ks_create reads its 8 key bytes through that pointer
MainCreate ==
    /\ dpc = "create"
    /\ \/ /\ dpc' = "exit"
          /\ status' = "SIGSEGV"
          /\ UNCHANGED cvars
       \/ /\ \E k \in MemoryBytes : CreateEnter(1, k)
          /\ dpc' = "translate"
          /\ UNCHANGED status
    /\ UNCHANGED <<argc, keyfile, infile, outarg, key64, inbuf, wi,
                   stdout, outfile, stderr>>

\* main: ks_translate(ks, inbuf, outbuf, in_len)
MainTranslate ==
    /\ dpc = "translate"
    /\ TranslateEnter(1, FALSE, inbuf, Len(inbuf))
    /\ dpc' = "deliver"
    /\ UNCHANGED <<argc, keyfile, infile, outarg, key64, inbuf, wi,
                   stdout, outfile, stderr, status>>

\* faulty variant: the count fwrite returns is not compared with len
MainDeliverNoCountTest ==
    /\ dpc = "deliver"
    /\ pc = "idle"
    /\ IF outarg = "-"
       THEN /\ dpc' = "stdout"
            /\ wi' = 0
            /\ UNCHANGED <<outfile, stderr, status>>
       ELSE /\ UNCHANGED wi
            /\ \/ Fail("perror output-file") /\ UNCHANGED outfile
               \/ \E cnt \in 0 .. Len(outb) :
                    /\ outfile' = SubSeq(outb, 1, cnt)
                    /\ dpc' = "cleanup"
                    /\ UNCHANGED <<stderr, status>>
    /\ UNCHANGED <<cvars, argc, keyfile, infile, outarg, key64, inbuf, stdout>>

\* main: choice of the sink; write_output_file as a whole
MainDeliver ==
    /\ dpc = "deliver"
    /\ pc = "idle"
    /\ IF outarg = "-"
       THEN /\ dpc' = "stdout"
            /\ wi' = 0
            /\ UNCHANGED <<outfile, stderr, status>>
       ELSE /\ UNCHANGED wi
            /\ \/ Fail("perror output-file") /\ UNCHANGED outfile
               \/ \E cnt \in 0 .. Len(outb) :
                    /\ outfile' = SubSeq(outb, 1, cnt)
                    /\ IF cnt # Len(outb)
                       THEN Fail("error: failed to write output file")
                       ELSE dpc' = "cleanup" /\ UNCHANGED <<stderr, status>>
    /\ UNCHANGED <<cvars, argc, keyfile, infile, outarg, key64, inbuf, stdout>>

\* write_stdout: one iteration of the loop
WriteStdoutStep ==
    /\ dpc = "stdout"
    /\ wi < Len(outb)
    /\ stdout' = stdout \o RenderByte(outb[wi + 1])
    /\ wi' = wi + 1
    /\ UNCHANGED <<cvars, dpc, argc, keyfile, infile, outarg, key64, inbuf,
                   outfile, stderr, status>>

WriteStdoutReturn ==
    /\ dpc = "stdout"
    /\ wi = Len(outb)
    /\ dpc' = "cleanup"
    /\ UNCHANGED <<cvars, argc, keyfile, infile, outarg, key64, inbuf, wi,
                   stdout, outfile, stderr, status>>

\* main: ks_destroy, free of both buffers, return EXIT_SUCCESS
MainCleanup ==
    /\ dpc = "cleanup"
    /\ Destroy(1)
    /\ outb' = <<>>
    /\ inbuf' = <<>>
    /\ status' = "EXIT_SUCCESS"
    /\ dpc' = "exit"
    /\ UNCHANGED <<argc, keyfile, infile, outarg, key64, wi,
                   stdout, outfile, stderr>>

DriverInit ==
    /\ CoreInit
    /\ dpc = "start"
    /\ argc \in {3, 4}
    /\ keyfile \in {NoFile} \cup { File(b) : b \in KeyFiles }
    /\ infile \in {NoFile} \cup { File(b) : b \in BufsOf(InBytes, MaxBytes) }
    /\ outarg \in {"-", "out.bin"}
    /\ key64 = <<>>
    /\ inbuf = <<>>
    /\ wi = 0
    /\ stdout = <<>>
    /\ outfile = <<>>
    /\ stderr = <<>>
    /\ status = "running"

DriverNext ==
    \/ MainArgs
    \/ ReadKey
    \/ ReadInput
    \/ MainAllocOut
    \/ MainCreate
    \/ KsaStep
    \/ ResetIndices
    \/ PrimeStep
    \/ CreateReturn
    \/ MainTranslate
    \/ TranslateStep
    \/ TranslateReturn
    \/ MainDeliver
    \/ WriteStdoutStep
    \/ WriteStdoutReturn
    \/ MainCleanup

DriverSpec == DriverInit /\ [][DriverNext]_vars

\* ------------------------------------------------------------------------
\* write_stdout on its own, over chosen buffers
\* ------------------------------------------------------------------------
\* longest buffer handed to write_stdout
MaxRender == 2
RenderBytes == {0, 10, 31, 32, 65, 97, 126, 127, 128, 171, 255}

StdoutInit ==
    /\ heap = <<>>
    /\ pc = "idle"
    /\ self = 1
    /\ n = 0
    /\ jloc = 0
    /\ inb = <<>>
    /\ outb \in BufsOf(RenderBytes, MaxRender)
    /\ num = 0
    /\ nbCalls = [g \in GenIds |-> 0]
    /\ inLog = [g \in GenIds |-> <<>>]
    /\ outLog = [g \in GenIds |-> <<>>]
    /\ kLog = [g \in GenIds |-> <<>>]
    /\ cuts = [g \in GenIds |-> {}]
    /\ entryCalls = 0
    /\ lastB = 0
    /\ dpc = "stdout"
    /\ argc = 4
    /\ keyfile = NoFile
    /\ infile = NoFile
    /\ outarg = "-"
    /\ key64 = <<>>
    /\ inbuf = <<>>
    /\ wi = 0
    /\ stdout = <<>>
    /\ outfile = <<>>
    /\ stderr = <<>>
    /\ status = "running"

StdoutNext ==
    \/ WriteStdoutStep
    \/ WriteStdoutReturn

StdoutSpec == StdoutInit /\ [][StdoutNext]_vars

\* ------------------------------------------------------------------------
\* The KStream module under arbitrary callers
\* ------------------------------------------------------------------------
Next ==
    \/ CallCreate
    \/ KsaStep
    \/ ResetIndices
    \/ PrimeStep
    \/ CreateReturn
    \/ CallTranslate
    \/ TranslateStep
    \/ TranslateReturn
    \/ CallDestroy

Spec == Init /\ [][Next]_vars

TypeOK ==
    /\ pc \in {"idle", "ksa", "prime", "xlate"}
    /\ \A g \in DOMAIN heap : heap[g].i \in Byte
    /\ dpc \in {"off", "start", "read_key", "read_input", "alloc_out",
                "create", "translate", "deliver", "stdout", "cleanup", "exit"}

\* ------------------------------------------------------------------------
\* Properties
\* ------------------------------------------------------------------------
\* exclusive-or of two bytes, bit by bit
XorRef(a, b) ==
    LET bit(x, k) == (x \div (2 ^ k)) % 2
        w(k) == (2 ^ k) * ((bit(a, k) + bit(b, k)) % 2)
    IN  w(0) + w(1) + w(2) + w(3) + w(4) + w(5) + w(6) + w(7)

SameKey(g, h) == heap[g].key = heap[h].key

\* C1: involution. When a generator h created from key K has been fed
\* exactly the bytes that another generator g created from the same K has
\* written, h has written exactly the bytes g was fed.
C1_Involution ==
    \A g \in DOMAIN heap : \A h \in DOMAIN heap \ {g} :
        (SameKey(g, h) /\ inLog[h] = outLog[g]) => outLog[h] = inLog[g]

C1_Witness ==
    \E g \in DOMAIN heap : \E h \in DOMAIN heap \ {g} :
        /\ pc = "idle"
        /\ SameKey(g, h)
        /\ Len(inLog[g]) >= 2
        /\ inLog[h] = outLog[g]
        /\ outLog[g] # inLog[g]

\* C2: while ks_translate runs, after k loop iterations it has written k
\* output bytes, out[x] = in[x] XOR (the x-th byte ks_next_byte returned in
\* this call), and it has called ks_next_byte k times; the loop ends at
\* k = num, so a call writes num bytes with num calls.
C2_TranslateContract ==
    pc = "xlate" =>
        LET base == Len(kLog[self]) - n
        IN  /\ n <= num
            /\ Len(inb) = num
            /\ Len(outb) = n
            /\ nbCalls[self] - entryCalls = n
            /\ base >= 0
            /\ \A x \in 1 .. n :
                 outb[x] = XorRef(inb[x], kLog[self][base + x])

C2_Witness ==
    /\ pc = "xlate"
    /\ n = num
    /\ num >= 2
    /\ Len(kLog[self]) = 2
    /\ kLog[self][1] # kLog[self][2]

IsPermutation(S) ==
    /\ DOMAIN S = 0 .. 255
    /\ { S[x] : x \in 0 .. 255 } = 0 .. 255

\* C4: the table of every generator is a bijection on 0..255 in every
\* reachable state, construction and translation included.
C4_Bijection == \A g \in DOMAIN heap : IsPermutation(heap[g].S)

C4_Witness ==
    \E g \in DOMAIN heap :
        /\ Len(inLog[g]) >= 1
        /\ \E x \in 0 .. 255 : heap[g].S[x] # x

\* C5: determinism. Two generators with the same key that have made the
\* same number of ks_next_byte calls are in the same state, whatever they
\* were fed, and the keystream bytes they handed out agree call by call.
C5_Determinism ==
    \A g \in DOMAIN heap : \A h \in DOMAIN heap \ {g} :
        (SameKey(g, h) /\ Ready(g) /\ Ready(h)) =>
            /\ nbCalls[g] = nbCalls[h] => heap[g] = heap[h]
            /\ \A x \in 1 .. Min(Len(kLog[g]), Len(kLog[h])) :
                 kLog[g][x] = kLog[h][x]

C5_Witness ==
    \E g \in DOMAIN heap : \E h \in DOMAIN heap \ {g} :
        /\ SameKey(g, h)
        /\ pc = "idle"
        /\ Len(kLog[g]) >= 2
        /\ Len(kLog[h]) >= 2
        /\ inLog[g] # inLog[h]
        /\ cuts[g] # cuts[h]

\* a step of the module that begins and ends outside any call and neither
\* creates nor destroys a generator: a ks_translate call with num = 0
EmptyCallStep ==
    /\ pc = "idle"
    /\ pc' = "idle"
    /\ DOMAIN heap' = DOMAIN heap
    /\ dpc' = dpc

\* C6: a ks_translate call with num = 0 changes nothing: no ks_next_byte
\* call, no output byte, the same generator state, and the call returns.
C6_EmptyIsNoOp ==
    [][ EmptyCallStep =>
             /\ heap' = heap
             /\ nbCalls' = nbCalls
             /\ outb' = outb
             /\ outLog' = outLog
             /\ kLog' = kLog
             /\ pc' = "idle" ]_vars

C6_Witness ==
    \E g \in DOMAIN heap :
        /\ pc = "idle"
        /\ Len(inLog[g]) = 1
        /\ cuts[g] = {0, 1}

\* C7: construction makes exactly 1024 ks_next_byte calls after the key
\* schedule and hands out none of their results, so the x-th keystream
\* byte a caller receives comes from call number 1024 + x, the first one
\* from call 1025.
C7_Priming ==
    \A g \in DOMAIN heap :
        IF Ready(g)
        THEN nbCalls[g] = 1024 + Len(kLog[g])
        ELSE /\ kLog[g] = <<>>
             /\ outLog[g] = <<>>
             /\ nbCalls[g] = (IF pc = "ksa" THEN 0 ELSE n)
             /\ nbCalls[g] <= 1024

C7_Witness ==
    \E g \in DOMAIN heap :
        /\ Len(kLog[g]) = 1
        /\ nbCalls[g] = 1025

\* C8 as stated: a key file whose content is not exactly 8 bytes never
\* gets past read_key: no generator, no translation, no successful exit.
C8_KeyFileNot8Rejected ==
    (keyfile.exists /\ Len(keyfile.data) # 8) =>
        /\ DOMAIN heap = {}
        /\ dpc \in {"start", "read_key", "exit"}
        /\ status # "EXIT_SUCCESS"

\* C9 as stated: the key of the driver's generator is the 8 bytes of the
\* key file, in file order.
C9_KeyVerbatim ==
    /\ status # "SIGSEGV"
    /\ 1 \in DOMAIN heap =>
         \A x \in 0 .. 7 : heap[1].key[x] = keyfile.data[x + 1]

HexChars == <<48, 49, 50, 51, 52, 53, 54, 55, 56, 57,
              97, 98, 99, 100, 101, 102>>
LowerHex(b) == <<HexChars[(b \div 16) + 1], HexChars[(b % 16) + 1]>>

RECURSIVE RenderedAs(_, _, _)
RenderedAs(printableOnly, buf, k) ==
    IF k = 0 THEN <<>>
    ELSE LET b == buf[k]
             literal == IF printableOnly THEN 32 <= b /\ b <= 126
                        ELSE b < 128
         IN  RenderedAs(printableOnly, buf, k - 1)
               \o (IF literal THEN <<b>> ELSE LowerHex(b))

\* C10 as stated: every byte below 128 is written as its own character,
\* every other byte as two lowercase hexadecimal digits.
C10_Original ==
    dpc \in {"stdout", "cleanup"} => stdout = RenderedAs(FALSE, outb, wi)

\* C10 amended: a byte is written as its own character when it is a
\* printable ASCII character (32..126); every other byte, the control
\* characters and 127 included, is written as two lowercase hexadecimal
\* digits.
C10_Rendering ==
    dpc \in {"stdout", "cleanup"} => stdout = RenderedAs(TRUE, outb, wi)

C10_Witness ==
    /\ dpc = "cleanup"
    /\ outb = <<10, 255>>
    /\ stdout = <<48, 97, 102, 102>>
C12_NextByteSteps ==
    [][ \A g \in DOMAIN heap \cap DOMAIN heap' :
          nbCalls'[g] = nbCalls[g] + 1 =>
             LET old == heap[g]
                 new == heap'[g]
                 ni  == (old.i + 1) % 256
                 nj  == (old.j + old.S[ni]) % 256
             IN  /\ new.i = ni
                 /\ new.j = nj
                 /\ \A x \in 0 .. 255 :
                      new.S[x] = IF x = ni THEN old.S[nj]
                                 ELSE IF x = nj THEN old.S[ni]
                                 ELSE old.S[x]
                 /\ lastB' = new.S[(new.S[ni] + new.S[nj]) % 256] ]_vars

\* a call has just returned a byte read from one of the two exchanged
\* positions
C12_Witness ==
    /\ pc \in {"prime", "xlate"}
    /\ nbCalls[self] >= 1
    /\ LET ks == heap[self]
           idx == (ks.S[ks.i] + ks.S[ks.j]) % 256
       IN  /\ ks.i # ks.j
           /\ idx \in {ks.i, ks.j}
           /\ lastB = ks.S[idx]
\* the reference key schedule, one iteration: m is the table position
RefKsaStep(key, st, m) ==
    LET nj == (st.j + st.S[m] + key[m % 8]) % 256
    IN  [S |-> [st.S EXCEPT ![m] = st.S[nj], ![nj] = st.S[m]], j |-> nj]

\* iterations lo .. hi - 1 of the reference key schedule applied to st, in
\* increasing order.  The range is halved and the left half is computed
\* (the comparison evaluates it in full) before the right half is entered,
\* which keeps the evaluation shallow.
RECURSIVE RefKsaRange(_, _, _, _)
RefKsaRange(key, st, lo, hi) ==
    IF hi <= lo THEN st
    ELSE IF hi = lo + 1 THEN RefKsaStep(key, st, lo)
    ELSE LET mid  == (lo + hi) \div 2
             left == RefKsaRange(key, st, lo, mid)
         IN  IF left = left
             THEN RefKsaRange(key, left, mid, hi)
             ELSE st

\* the reference key schedule: table and running j after k iterations,
\* from the identity table and j = 0
RefKsa(key, k) ==
    LET start == [S |-> [x \in 0 .. 255 |-> x], j |-> 0]
    IN  IF start = start
        THEN RefKsaRange(key, start, 0, k)
        ELSE start

\* C13: the key schedule starts from the identity table and j = 0, and
\* after its first k iterations, k = 0..256, the table and the running j
\* are those of the reference key schedule for the generator's key.
C13_KeySchedule ==
    pc = "ksa" =>
        LET ref == RefKsa(heap[self].key, n)
        IN  /\ heap[self].S = ref.S
            /\ jloc = ref.j

C13_Witness ==
    /\ pc = "ksa"
    /\ n = 256
    /\ jloc # 0
    /\ heap[self].key[0] = 1
    /\ \E x \in 0 .. 255 : heap[self].S[x] # x
\* C14: the indices i and j of every generator lie in 0..255 in every
\* reachable state, during construction, priming and translation.
C14_IndexRange ==
    \A g \in DOMAIN heap :
        /\ heap[g].i \in 0 .. 255
        /\ heap[g].j \in 0 .. 255

\* i has wrapped from 255 to 0 during priming
C14_Witness ==
    /\ pc = "prime"
    /\ nbCalls[self] = 256
    /\ heap[self].i = 0
    /\ heap[self].j > 0
\* C15: a ks_next_byte call on a generator leaves every table entry other
\* than those at the new i and the new j as it was, and leaves every other
\* generator alone; no step changes the key or keylen of a generator that
\* exists before and after it.
C15_Frame ==
    [][ \A g \in DOMAIN heap \cap DOMAIN heap' :
          /\ heap'[g].key = heap[g].key
          /\ heap'[g].keylen = heap[g].keylen
          /\ nbCalls'[g] = nbCalls[g] + 1 =>
               /\ \A x \in (0 .. 255) \ {heap'[g].i, heap'[g].j} :
                    heap'[g].S[x] = heap[g].S[x]
               /\ \A h \in (DOMAIN heap \cap DOMAIN heap') \ {g} :
                    heap'[h] = heap[h] ]_vars

\* a translation step has just exchanged two distinct entries of one
\* generator while another generator exists
C15_Witness ==
    /\ pc = "xlate"
    /\ n >= 1
    /\ heap[self].i # heap[self].j
    /\ DOMAIN heap = GenIds
\* C16: two generators with the same key that have been fed the same
\* bytes have written the same bytes and are in the same state, however
\* the bytes were divided among ks_translate calls, empty calls included.
C16_Chunking ==
    \A g \in DOMAIN heap : \A h \in DOMAIN heap \ {g} :
        (SameKey(g, h) /\ Ready(g) /\ Ready(h) /\ inLog[g] = inLog[h]) =>
            /\ outLog[g] = outLog[h]
            /\ heap[g] = heap[h]

\* one generator took two bytes in one call, the other took the same two
\* bytes in an empty call and two calls of one byte
C16_Witness ==
    \E g \in DOMAIN heap : \E h \in DOMAIN heap \ {g} :
        /\ pc = "idle"
        /\ SameKey(g, h)
        /\ Len(inLog[g]) = 2
        /\ inLog[g] = inLog[h]
        /\ cuts[g] = {2}
        /\ cuts[h] = {0, 1, 2}

\* C17: i counts the ks_next_byte calls made on the generator modulo 256;
\* it is 0 after the 1024 calls of construction and, once M bytes have
\* been translated, M mod 256; every ks_next_byte call changes the
\* generator.
C17_IndexCounts ==
    /\ [](\A g \in DOMAIN heap :
            /\ heap[g].i = nbCalls[g] % 256
            /\ Ready(g) => heap[g].i = Len(inLog[g]) % 256)
    /\ [][ \A g \in DOMAIN heap \cap DOMAIN heap' :
             nbCalls'[g] = nbCalls[g] + 1 => heap'[g] # heap[g] ]_vars

C17_Witness ==
    \E g \in DOMAIN heap :
        /\ pc = "idle"
        /\ Len(inLog[g]) = 2
        /\ nbCalls[g] = 1026
        /\ heap[g].i = 2
====
